---- MODULE Spec2Model ----
(***************************************************************************)
(* Model of matrix-embed's response pipeline: process_response             *)
(* (src/processing.rs) together with remux_to_mp4 and the media tools it   *)
(* calls (src/media.rs).                                                   *)
(*                                                                         *)
(* A byte is a small number; the leading byte of a buffer stands for the   *)
(* file signature that infer::get looks at.  Option<T> is a sequence of    *)
(* length 0 (None) or 1 (Some).  A Mime is a record [type, subtype].       *)
(***************************************************************************)
EXTENDS Integers, Sequences, FiniteSets, TLC

\* ---------------------------------------------------------------- bounds
MaxBudget == 2
MaxChunk == 2
MaxDim == 1
MaxMsgs == 2

\* ------------------------------------------------------------- Option<T>
None == <<>>
Some(x) == <<x>>
IsSome(o) == Len(o) = 1
Unwrap(o) == o[1]

\* ------------------------------------------------------------------ bytes
UnknownMagic == 0
EbmlMagic == 1
FtypMagic == 2
JfifMagic == 3
Byte == {UnknownMagic, EbmlMagic, FtypMagic}

SeqsUpTo(S, n) == UNION {[1..k -> S] : k \in 0..n}
Chunks == SeqsUpTo(Byte, MaxChunk) \ {<<>>}

\* ------------------------------------------------------------------ mimes
Mime(t, s) == [type |-> t, subtype |-> s]
MATROSKA == Mime("video", "x-matroska")
MP4 == Mime("video", "mp4")
OCTET_STREAM == Mime("application", "octet-stream")

\* "…".parse::<Mime>(): Some(mime) for a well-formed type/subtype (the parser
\* lower-cases it), None otherwise.
ParseMime(s) ==
    CASE s = "video/x-matroska" -> Some(MATROSKA)
      [] s = "video/mp4" -> Some(MP4)
      [] s = "image/png" -> Some(Mime("image", "png"))
      [] s = "Image/PNG" -> Some(Mime("image", "png"))
      [] s = "image/jpeg" -> Some(Mime("image", "jpeg"))
      [] s = "audio/mpeg" -> Some(Mime("audio", "mpeg"))
      [] s = "application/x-unlisted" -> Some(Mime("application", "x-unlisted"))
      [] OTHER -> None

\* Content-Type header values a server may send (None: no header).
ContentTypeHeaders == {None, Some("not a mime"), Some("Image/PNG")}

\* infer::get(&data): the signature of the leading bytes, as infer's MIME
\* string, or None when no signature matches.
InferGet(buf) ==
    IF Len(buf) = 0 THEN None
    ELSE CASE buf[1] = EbmlMagic -> Some("video/x-matroska")
           [] buf[1] = FtypMagic -> Some("video/mp4")
           [] buf[1] = JfifMagic -> Some("image/jpeg")
           [] OTHER -> None

\* ------------------------------------------------------------- URL paths
\* A path is a sequence of segments, a segment a sequence of tokens; "." is
\* the dot that Path::extension splits at.
RECURSIVE LastDot(_, _)
LastDot(name, i) ==
    IF i = 0 THEN 0 ELSE IF name[i] = "." THEN i ELSE LastDot(name, i - 1)

\* std::path::Path::extension: what follows the last dot of the file name,
\* None without a dot or when the only dot leads the name.
PathExtension(name) ==
    LET d == LastDot(name, Len(name))
    IN IF d <= 1 THEN None ELSE Some(SubSeq(name, d + 1, Len(name)))

\* mime_guess::from_path(path).first(): the table entry of the (lower-cased)
\* extension of the last path component.
ExtensionMime(ext) ==
    CASE ext = <<"mkv">> -> Some(MATROSKA)
      [] ext = <<"MKV">> -> Some(MATROSKA)
      [] ext = <<"mp4">> -> Some(MP4)
      [] ext = <<"mp3">> -> Some(Mime("audio", "mpeg"))
      [] ext = <<"png">> -> Some(Mime("image", "png"))
      [] OTHER -> None

\* mime_guess::from_path(path).first_or_octet_stream()
GuessFromPath(path) ==
    LET file == IF Len(path) = 0 THEN <<>> ELSE path[Len(path)]
        ext == PathExtension(file)
        guess == IF IsSome(ext) THEN ExtensionMime(Unwrap(ext)) ELSE None
    IN IF IsSome(guess) THEN Unwrap(guess) ELSE OCTET_STREAM

FinalUrlPaths ==
    { << <<>> >>,
      << <<"v">>, <<"clip", ".", "MKV">> >>,
      << <<"a", ".", "mp3">> >> }

\* One more final URL, for naming: https://host/clip.mp4:orig
NamingUrlPaths == FinalUrlPaths \cup { << <<"clip", ".", "mp4", ":orig">> >> }

\* Content-Type header values for naming; the last one parses but has no
\* entry in mime_guess's table.
NamingContentTypes == {None, Some("Image/PNG"), Some("application/x-unlisted")}

\* ------------------------------------------------------------------ names
\* str::to_lowercase / eq_ignore_ascii_case, token by token.
Lower(tok) ==
    CASE tok = "MKV" -> "mkv"
      [] tok = "MP4" -> "mp4"
      [] tok = "Video" -> "video"
      [] tok = "FileName=" -> "filename="
      [] OTHER -> tok

LowerAll(name) == [i \in DOMAIN name |-> Lower(name[i])]

\* str::trim: drop the leading and the trailing spaces.
RECURSIVE TrimStart(_)
TrimStart(part) ==
    IF Len(part) > 0 /\ part[1] = " " THEN TrimStart(Tail(part)) ELSE part

RECURSIVE TrimEnd(_)
TrimEnd(part) ==
    IF Len(part) > 0 /\ part[Len(part)] = " "
    THEN TrimEnd(SubSeq(part, 1, Len(part) - 1)) ELSE part

Trim(part) == TrimEnd(TrimStart(part))

\* mime_guess::get_mime_extensions(&mime): the extensions the table lists for
\* the type, in the table's (alphabetical) order, or None for an unlisted type.
MimeExtensions(mime) ==
    CASE mime = MATROSKA -> Some(<<"mk3d", "mks", "mkv">>)
      [] mime = MP4 -> Some(<<"mp4", "mp4v", "mpg4">>)
      [] mime = Mime("image", "png") -> Some(<<"png">>)
      [] mime = Mime("image", "jpeg") -> Some(<<"jfif", "jpe", "jpeg", "jpg">>)
      [] mime = Mime("audio", "mpeg") -> Some(<<"m2a", "m3a", "mp2", "mp2a", "mp3", "mpga">>)
      [] mime = OCTET_STREAM -> Some(<<"bin", "dms", "exe">>)
      [] OTHER -> None

\* Content-Disposition header values (None: no header), each already split
\* at ';' into parts of tokens:
\*   attachment; FileName="Video.MP4"
\*   inline; filename=""; filename=report
\*   attachment; filename*=UTF-8''x
\*   attachment; filename="
ContentDispositions ==
    { None,
      Some(<< <<"attachment">>, <<" ", "FileName=", "\"", "Video", ".", "MP4", "\"">> >>),
      Some(<< <<"inline">>, <<" ", "filename=", "\"", "\"">>,
              <<" ", "filename=", "report", " ">> >>),
      Some(<< <<"attachment">>, <<" ", "filename*=", "UTF-8''x">> >>),
      Some(<< <<"attachment">>, <<" ", "filename=", "\"">> >>) }

\* ------------------------------------------------------------------ state
VARIABLES
    max_file_size,      \* config.max_file_size
    content_length,     \* response.content_length()
    content_type,       \* the response's Content-Type header
    url_path,           \* response.url().path()
    content_disposition, \* the response's Content-Disposition header
    pc,                 \* position in process_response / remux_to_mp4
    mime_type,          \* local mime_type
    tmp_file,           \* the download's NamedTempFile
    downloaded,         \* local downloaded
    chunk_calls,        \* number of response.chunk() calls made
    data,               \* local data
    resolved,           \* history: mime_type and data as they were at line 133
    calls,              \* the external tools and encoders invoked so far, in order
    input_file,         \* remux_to_mp4's input NamedTempFile
    output_file,        \* remux_to_mp4's output NamedTempFile
    remux_status,       \* how each ffmpeg stage of remux_to_mp4 ended
    remux_result,       \* what remux_to_mp4 returned (None: not returned)
    info,               \* probe_media's MediaInfo for data (None: no info)
    thumbnail_data,     \* local thumbnail_data
    blurhash,           \* local blurhash
    attachment_config,  \* local attachment_config
    mime_extensions,    \* local mime_extensions
    preferred_extension, \* local preferred_extension
    filename,           \* local filename
    children,           \* subprocesses left running by a tool call that returned
    timed_out,          \* history: the tool calls that ended in a timeout
    probe_input,        \* history: the bytes given to the probe_media call at line 162
    stdin_write,        \* how the stdin write went, in the tool call under way or just failed
    url_rewrites,       \* config.url_rewrites
    event,              \* the room message events of a sync, in order
    page,               \* per event: what Metadata::fetch_from_url gives for its URL
    hpc,                \* per event: position of its handler invocation in main.rs
    url,                \* per event: handle_message's local url
    params,             \* per event: the MessageParams given to post_message
    typing,             \* per event: whether with_typing's typing task is running
    sends,              \* per event: the room.send / send_attachment calls made
    upload_result,      \* per event: what download_and_upload returned
    logged,             \* per event: the warn! and error! lines written
    result              \* what process_response returned (None while running)

respVars == <<max_file_size, content_length, content_type, url_path,
              content_disposition>>
nameVars == <<mime_extensions, preferred_extension, filename>>
downloadVars == <<tmp_file, downloaded, chunk_calls>>
historyVars == <<resolved, calls>>
remuxVars == <<input_file, output_file, remux_status, remux_result>>
mediaVars == <<info, thumbnail_data, blurhash, attachment_config>>
toolVars == <<children, timed_out, probe_input, stdin_write>>
botInputs == <<url_rewrites, event, page>>
botVars == <<botInputs, hpc, url, params, typing, sends, upload_result, logged>>
pipelineVars == <<pc, mime_type, tmp_file, downloaded, chunk_calls, data, resolved, calls,
                  input_file, output_file, remux_status, remux_result, info,
                  thumbnail_data, blurhash, attachment_config, mime_extensions,
                  preferred_extension, filename, children, timed_out, probe_input,
                  stdin_write, result>>

vars == <<max_file_size, content_length, content_type, url_path,
          content_disposition, pc, mime_type,
          tmp_file, downloaded, chunk_calls, data, resolved, calls, input_file,
          output_file, remux_status, remux_result, info, thumbnail_data,
          blurhash, attachment_config, mime_extensions, preferred_extension,
          filename, children, timed_out, probe_input, stdin_write, result,
          url_rewrites, event, page,
          hpc, url,
          params, typing, sends, upload_result, logged>>

NoFile == [state |-> "none", content |-> <<>>]
Err(kind) == [ok |-> FALSE, err |-> kind]
NoStages == [copy |-> "not_run", reencode |-> "not_run"]

\* An entry of calls: which tool or encoder ran and whether it succeeded.
Call(op, ok) == [op |-> op, ok |-> ok]

\* AttachmentConfig::new()
NewAttachmentConfig == [info |-> None, thumbnail |-> None]

\* The locals of process_response and remux_to_mp4 before the call.
InitLocals ==
    /\ pc = "start"
    /\ mime_type = None
    /\ tmp_file = NoFile
    /\ downloaded = 0
    /\ chunk_calls = 0
    /\ data = <<>>
    /\ resolved = None
    /\ calls = <<>>
    /\ input_file = NoFile
    /\ output_file = NoFile
    /\ remux_status = NoStages
    /\ remux_result = None
    /\ info = None
    /\ thumbnail_data = None
    /\ blurhash = None
    /\ attachment_config = NewAttachmentConfig
    /\ mime_extensions = None
    /\ preferred_extension = None
    /\ filename = <<>>
    /\ children = {}
    /\ timed_out = {}
    /\ probe_input = None
    /\ stdin_write = None
    /\ result = None

\* No room message is being handled.
NoMessages ==
    /\ url_rewrites = <<>>
    /\ event = <<>>
    /\ page = <<>>
    /\ hpc = <<>>
    /\ url = <<>>
    /\ params = <<>>
    /\ typing = <<>>
    /\ sends = <<>>
    /\ upload_result = <<>>
    /\ logged = <<>>

\* A response whose size and type vary, named by its URL alone.
Init ==
    /\ max_file_size \in 1..MaxBudget
    /\ content_length \in {None} \cup {Some(n) : n \in 1..(MaxBudget + 1)}
    /\ content_type \in ContentTypeHeaders
    /\ url_path \in FinalUrlPaths
    /\ content_disposition = None
    /\ InitLocals
    /\ NoMessages

\* A small response without a declared length whose names and type vary.
InitNaming ==
    /\ max_file_size = 1
    /\ content_length = None
    /\ content_type \in NamingContentTypes
    /\ url_path \in NamingUrlPaths
    /\ content_disposition \in ContentDispositions
    /\ InitLocals
    /\ NoMessages

\* Variant: a dropped temporary file stays on disk.
Drop_Persist(f) == f

\* Dropping a NamedTempFile deletes the file.
Drop(f) == IF f.state = "open" THEN [state |-> "deleted", content |-> <<>>] ELSE f

\* media.rs 47-48, 109-110: how stdin.write_all(data) under its timeout ends
StdinWrites == {"written", "broken_pipe", "write_err", "timeout"}

\* Variant: a broken pipe is a write error like any other.
WriteFails_BrokenPipeToo(w) == w \in {"write_err", "broken_pipe"}

\* media.rs 48-52, 110-114: Err(e) with e.kind() != BrokenPipe
WriteFails(w) == w = "write_err"

\* media.rs 47-56, 109-118: the call returns at a write timeout or a failing
\* write, and otherwise goes on to wait_with_output.
WriteReturns(w) == w = "timeout" \/ WriteFails(w)

\* What stdin_write keeps of the write.
StdinWrite(op, w) == Some([op |-> op, outcome |-> w])

\* media.rs 48-56, 110-118: `timeout(..).await?` returns the Elapsed error.
TimedOut(r) == ~r.ok /\ r.err \in {"write_timeout", "wait_timeout"}

\* media.rs 48-56, 110-118, 154-179, 199-232: on a timeout the function
\* returns and its Child (or the output() future holding it) is dropped; the
\* Command was built without kill_on_drop, so the subprocess keeps running.
DropChild(op, timeout) ==
    /\ children' = IF timeout THEN children \cup {op} ELSE children
    /\ timed_out' = IF timeout THEN timed_out \cup {op} ELSE timed_out

\* An early return of process_response: bail!(..) or `?`.
Bail(kind) ==
    /\ pc' = "done"
    /\ result' = Some(Err(kind))
    /\ tmp_file' = Drop(tmp_file)

\* Variant: the declared length is compared one past the budget.
TooLargeDeclared_OffByOne ==
    IsSome(content_length) /\ Unwrap(content_length) > max_file_size + 1

\* processing.rs 90-92
TooLargeDeclared == IsSome(content_length) /\ Unwrap(content_length) > max_file_size

\* processing.rs 89-94
CheckContentLength ==
    /\ pc = "start"
    /\ IF TooLargeDeclared
       THEN Bail("too_large_declared")
       ELSE /\ pc' = "headers"
            /\ UNCHANGED <<result, tmp_file>>
    /\ UNCHANGED <<botVars, respVars, toolVars, nameVars, mime_type, downloaded, chunk_calls,
                   data, historyVars, remuxVars, mediaVars>>

\* Variant: the URL's extension is preferred to the Content-Type header.
HeaderMime_GuessFirst ==
    LET parsed == IF IsSome(content_type) THEN ParseMime(Unwrap(content_type)) ELSE None
    IN IF GuessFromPath(url_path) # OCTET_STREAM \/ ~IsSome(parsed)
       THEN GuessFromPath(url_path) ELSE Unwrap(parsed)

\* processing.rs 96-101
HeaderMime ==
    LET parsed == IF IsSome(content_type) THEN ParseMime(Unwrap(content_type)) ELSE None
    IN IF IsSome(parsed) THEN Unwrap(parsed) ELSE GuessFromPath(url_path)

\* processing.rs 96-109
ReadHeaders ==
    /\ pc = "headers"
    /\ mime_type' = Some(HeaderMime)
    /\ pc' = "tmpfile"
    /\ UNCHANGED <<botVars, respVars, toolVars, nameVars, downloadVars, data, historyVars,
                   remuxVars, mediaVars, result>>

\* processing.rs 111-112
CreateTempFile ==
    /\ pc = "tmpfile"
    /\ \E io_ok \in BOOLEAN :
         IF io_ok
         THEN /\ tmp_file' = [state |-> "open", content |-> <<>>]
              /\ pc' = "stream"
              /\ UNCHANGED result
         ELSE Bail("tmpfile_io")
    /\ downloaded' = 0
    /\ UNCHANGED <<botVars, respVars, toolVars, nameVars, mime_type, chunk_calls, data,
                   historyVars, remuxVars, mediaVars>>

\* Variant: the streamed total is checked only when no length was declared.
OverBudget_TrustsDeclared(total) == content_length = None /\ total > max_file_size

\* processing.rs 116
OverBudget(total) == total > max_file_size

\* processing.rs 114-120: one turn of the download loop.
\* response.chunk() yields a chunk, the end of the body, or a transport error.
ReadChunk ==
    /\ pc = "stream"
    /\ chunk_calls' = chunk_calls + 1
    /\ \/ \E chunk \in Chunks :
            /\ downloaded' = downloaded + Len(chunk)
            /\ IF OverBudget(downloaded')
               THEN Bail("too_large_streamed")
               ELSE \E io_ok \in BOOLEAN :
                      IF io_ok
                      THEN /\ tmp_file' = [tmp_file EXCEPT !.content = @ \o chunk]
                           /\ UNCHANGED <<pc, result>>
                      ELSE Bail("tmpfile_io")
       \/ /\ pc' = "read"
          /\ UNCHANGED <<downloaded, tmp_file, result>>
       \/ /\ Bail("transport")
          /\ UNCHANGED downloaded
    /\ UNCHANGED <<botVars, respVars, toolVars, nameVars, mime_type, data, historyVars,
                   remuxVars, mediaVars>>

\* processing.rs 122-123
ReadTempFile ==
    /\ pc = "read"
    /\ \E io_ok \in BOOLEAN :
         IF io_ok
         THEN /\ data' = tmp_file.content
              /\ pc' = "sniff"
              /\ UNCHANGED <<result, tmp_file>>
         ELSE /\ Bail("tmpfile_io")
              /\ UNCHANGED data
    /\ UNCHANGED <<botVars, respVars, toolVars, nameVars, mime_type, downloaded, chunk_calls,
                   historyVars, remuxVars, mediaVars>>

\* processing.rs 126-128
SniffedMime(buf) ==
    LET kind == InferGet(buf)
    IN IF IsSome(kind) THEN ParseMime(Unwrap(kind)) ELSE None

\* processing.rs 125-133
SniffMime ==
    /\ pc = "sniff"
    /\ mime_type' = IF IsSome(SniffedMime(data)) THEN SniffedMime(data) ELSE mime_type
    /\ resolved' = Some([mime_type |-> Unwrap(mime_type'), data |-> data])
    /\ pc' = "remux_check"
    /\ UNCHANGED <<botVars, respVars, toolVars, nameVars, downloadVars, data, calls, remuxVars,
                   mediaVars, result>>

\* Variant: every video is sent to the remuxer.
NeedsRemux_AnyVideo(mime) == mime.type = "video"

\* processing.rs 136
NeedsRemux(mime) == mime = MATROSKA

\* processing.rs 136-137: remux_to_mp4(&data) is called for Matroska only.
RemuxCheck ==
    /\ pc = "remux_check"
    /\ pc' = IF NeedsRemux(Unwrap(mime_type)) THEN "remux_files" ELSE "extensions"
    /\ UNCHANGED <<botVars, respVars, toolVars, nameVars, downloadVars, mime_type, data,
                   historyVars, remuxVars, mediaVars, result>>

\* What ffmpeg may leave in the output file: nothing, or an MP4 of some size.
MaxOut == MaxBudget + 1
OutBytes(n) == [i \in 1..n |-> IF i = 1 THEN FtypMagic ELSE UnknownMagic]
FfmpegOutputs == {OutBytes(n) : n \in 0..MaxOut}

\* Leaving remux_to_mp4 drops both temporary files.
RemuxReturns(r) ==
    /\ remux_result' = Some(r)
    /\ input_file' = Drop(input_file)
    /\ output_file' = Drop(output_file)
    /\ pc' = "remux_return"

\* media.rs 135-151
RemuxCreateFiles ==
    /\ pc = "remux_files"
    /\ \E io \in {"ok", "input_err", "write_err", "output_err"} :
         CASE io = "ok" ->
                /\ input_file' = [state |-> "open", content |-> data]
                /\ output_file' = [state |-> "open", content |-> <<>>]
                /\ pc' = "remux_copy"
                /\ UNCHANGED remux_result
           [] io = "input_err" ->
                /\ remux_result' = Some(Err("remux_io"))
                /\ pc' = "remux_return"
                /\ UNCHANGED <<input_file, output_file>>
           [] io = "write_err" ->
                /\ remux_result' = Some(Err("remux_io"))
                /\ input_file' = [state |-> "deleted", content |-> <<>>]
                /\ pc' = "remux_return"
                /\ UNCHANGED output_file
           [] io = "output_err" ->
                /\ remux_result' = Some(Err("remux_io"))
                /\ input_file' = [state |-> "deleted", content |-> <<>>]
                /\ pc' = "remux_return"
                /\ UNCHANGED output_file
    /\ UNCHANGED <<botVars, respVars, toolVars, nameVars, downloadVars, mime_type, data,
                   historyVars, remux_status, mediaVars, result>>

\* How one ffmpeg run under timeout(..) can end.  Only the output of a run
\* that exited with success is ever read, so only that output is tracked.
StageOutcomes == {"timeout", "run_err", "exit_fail", "exit_ok"}

\* media.rs 177-179, 230-232: `.context(..)?` on the timeout's and on the
\* command's Result returns the error from remux_to_mp4.
Propagates(outcome) == outcome \in {"timeout", "run_err"}

\* Variant: the exit status is never taken as success.
StatusSuccess_Never(outcome) == FALSE

\* media.rs 181, 234: status.success()
StatusSuccess(outcome) == outcome = "exit_ok"

\* media.rs 153-181, 193-197: stage 1, ffmpeg -c copy
RemuxStreamCopy ==
    /\ pc = "remux_copy"
    /\ \E outcome \in StageOutcomes, out \in FfmpegOutputs :
         /\ calls' = Append(calls, Call("ffmpeg_copy", outcome = "exit_ok"))
         /\ DropChild("ffmpeg_copy", outcome = "timeout")
         /\ remux_status' = [remux_status EXCEPT !.copy = outcome]
         /\ IF Propagates(outcome)
            THEN RemuxReturns(Err("remux_" \o outcome))
            ELSE IF StatusSuccess(outcome)
            THEN /\ pc' = "remux_read_copy"
                 /\ output_file' = [output_file EXCEPT !.content = out]
                 /\ UNCHANGED <<input_file, remux_result>>
            ELSE /\ pc' = "remux_reencode"
                 /\ UNCHANGED <<input_file, output_file, remux_result>>
    /\ UNCHANGED <<botVars, respVars, probe_input, stdin_write, nameVars, downloadVars, mime_type, data,
                   resolved, mediaVars, result>>

\* media.rs 181-191
RemuxReadCopy ==
    /\ pc = "remux_read_copy"
    /\ \E io_ok \in BOOLEAN :
         IF io_ok
         THEN RemuxReturns([ok |-> TRUE, data |-> output_file.content, stage |-> "copy"])
         ELSE RemuxReturns(Err("remux_read"))
    /\ UNCHANGED <<botVars, respVars, toolVars, nameVars, downloadVars, mime_type, data,
                   historyVars, remux_status, mediaVars, result>>

\* media.rs 199-237: stage 2, ffmpeg -c:v libx264 -c:a aac
RemuxReencode ==
    /\ pc = "remux_reencode"
    /\ \E outcome \in StageOutcomes, out \in FfmpegOutputs :
         /\ calls' = Append(calls, Call("ffmpeg_reencode", outcome = "exit_ok"))
         /\ DropChild("ffmpeg_reencode", outcome = "timeout")
         /\ remux_status' = [remux_status EXCEPT !.reencode = outcome]
         /\ IF Propagates(outcome)
            THEN RemuxReturns(Err("reencode_" \o outcome))
            ELSE IF StatusSuccess(outcome)
            THEN /\ pc' = "remux_read_reencode"
                 /\ output_file' = [output_file EXCEPT !.content = out]
                 /\ UNCHANGED <<input_file, remux_result>>
            ELSE RemuxReturns(Err("reencode_exit_fail"))
    /\ UNCHANGED <<botVars, respVars, probe_input, stdin_write, nameVars, downloadVars, mime_type, data,
                   resolved, mediaVars, result>>

\* media.rs 239-247
RemuxReadReencode ==
    /\ pc = "remux_read_reencode"
    /\ \E io_ok \in BOOLEAN :
         IF io_ok
         THEN RemuxReturns([ok |-> TRUE, data |-> output_file.content, stage |-> "reencode"])
         ELSE RemuxReturns(Err("reencode_read"))
    /\ UNCHANGED <<botVars, respVars, toolVars, nameVars, downloadVars, mime_type, data,
                   historyVars, remux_status, mediaVars, result>>

\* Variant: the remuxer's error is propagated with `?`.
RemuxReturn_Propagates ==
    /\ pc = "remux_return"
    /\ IF Unwrap(remux_result).ok
       THEN /\ data' = Unwrap(remux_result).data
            /\ mime_type' = ParseMime("video/mp4")
            /\ pc' = "extensions"
            /\ UNCHANGED <<tmp_file, result>>
       ELSE /\ Bail(Unwrap(remux_result).err)
            /\ UNCHANGED <<data, mime_type>>
    /\ UNCHANGED <<botVars, respVars, toolVars, nameVars, downloaded, chunk_calls, historyVars,
                   remuxVars, mediaVars>>

\* Variant: the MIME type is switched to MP4 but the remuxed bytes are dropped.
RemuxReturn_KeepsData ==
    /\ pc = "remux_return"
    /\ IF Unwrap(remux_result).ok
       THEN /\ mime_type' = ParseMime("video/mp4")
            /\ UNCHANGED data
       ELSE UNCHANGED <<data, mime_type>>
    /\ pc' = "extensions"
    /\ UNCHANGED <<botVars, respVars, toolVars, nameVars, downloadVars, historyVars, remuxVars,
                   mediaVars, result>>

\* processing.rs 137-146: the match on remux_to_mp4's result
RemuxReturn ==
    /\ pc = "remux_return"
    /\ IF Unwrap(remux_result).ok
       THEN /\ data' = Unwrap(remux_result).data
            /\ mime_type' = ParseMime("video/mp4")
       ELSE UNCHANGED <<data, mime_type>>
    /\ pc' = "extensions"
    /\ UNCHANGED <<botVars, respVars, toolVars, nameVars, downloadVars, historyVars, remuxVars,
                   mediaVars, result>>

\* Variant: the extensions are looked up before the remux changes the type.
NamingMime_BeforeRemux == Unwrap(resolved).mime_type

\* processing.rs 149
NamingMime == Unwrap(mime_type)

\* processing.rs 149-158
PreferredExtension ==
    /\ pc = "extensions"
    /\ mime_extensions' = MimeExtensions(NamingMime)
    /\ preferred_extension' =
         IF IsSome(mime_extensions') THEN Some(Unwrap(mime_extensions')[1]) ELSE None
    /\ pc' = "probe"
    /\ UNCHANGED <<botVars, respVars, toolVars, downloadVars, mime_type, data, historyVars,
                   remuxVars, mediaVars, filename, result>>

\* media.rs 20-24, 28-79: probe_media returns a MediaInfo of two u32 parsed
\* from ffprobe's output, or an error.
MediaInfos == [width : 0..MaxDim, height : 0..MaxDim]
ProbeOutputs ==
    {Err(e) : e \in {"wait_timeout", "probe"}}
        \cup {[ok |-> TRUE, info |-> i] : i \in MediaInfos}
ProbeResults == {Err("write_timeout"), Err("write")} \cup ProbeOutputs

\* media.rs 83-126: generate_thumbnail returns ffmpeg's stdout, or an error.
ThumbnailOutputs == {<<>>, <<JfifMagic>>}
ThumbnailWaits ==
    {Err(e) : e \in {"wait_timeout", "thumbnail"}}
        \cup {[ok |-> TRUE, data |-> t] : t \in ThumbnailOutputs}
ThumbnailResults == {Err("write_timeout"), Err("write")} \cup ThumbnailWaits

\* media.rs 250-255: generate_blurhash fails when the bytes do not load as an
\* image, and otherwise returns the encoder's string or its error.
BlurhashResults(image_data) ==
    IF InferGet(image_data) = Some("image/jpeg")
    THEN {Err("blurhash"), [ok |-> TRUE, hash |-> "LEHV6nWB2yk8"]}
    ELSE {Err("blurhash")}

\* What a tool call that returned at its write leaves behind.
WriteFailed(op, child, w) ==
    /\ calls' = Append(calls, Call(op, FALSE))
    /\ DropChild(child, w = "timeout")

\* Variant: a failed probe falls back to a zero-sized MediaInfo and goes on.
ProbeMedia_DefaultInfo ==
    /\ pc = "probe"
    /\ probe_input' = Some(data)
    /\ \E w \in StdinWrites :
         /\ stdin_write' = StdinWrite("probe_media", w)
         /\ IF WriteReturns(w)
            THEN /\ WriteFailed("probe_media", "probe_media", w)
                 /\ info' = Some([width |-> 0, height |-> 0])
                 /\ pc' = "thumbnail"
            ELSE /\ pc' = "probe_wait"
                 /\ UNCHANGED <<calls, children, timed_out, info>>
    /\ UNCHANGED <<botVars, respVars, nameVars, downloadVars, mime_type, data, resolved,
                   remuxVars, thumbnail_data, blurhash, attachment_config, result>>

\* processing.rs 162, media.rs 28-52: probe_media(&data) up to the write of
\* data to ffprobe's stdin
ProbeMedia ==
    /\ pc = "probe"
    /\ probe_input' = Some(data)
    /\ \E w \in StdinWrites :
         /\ stdin_write' = StdinWrite("probe_media", w)
         /\ IF WriteReturns(w)
            THEN /\ WriteFailed("probe_media", "probe_media", w)
                 /\ pc' = "naming"
            ELSE /\ pc' = "probe_wait"
                 /\ UNCHANGED <<calls, children, timed_out>>
    /\ UNCHANGED <<botVars, respVars, nameVars, downloadVars, mime_type, data, resolved,
                   remuxVars, mediaVars, result>>

\* processing.rs 162-164, 228-230, media.rs 54-78: probe_media from
\* wait_with_output on
ProbeMediaWait ==
    /\ pc = "probe_wait"
    /\ \E r \in ProbeOutputs :
         /\ calls' = Append(calls, Call("probe_media", r.ok))
         /\ DropChild("probe_media", TimedOut(r))
         /\ IF r.ok
            THEN /\ info' = Some(r.info)
                 /\ pc' = "thumbnail"
            ELSE /\ pc' = "naming"
                 /\ UNCHANGED info
    /\ stdin_write' = None
    /\ UNCHANGED <<botVars, respVars, probe_input, nameVars, downloadVars, mime_type, data, resolved,
                   remuxVars, thumbnail_data, blurhash, attachment_config, result>>

\* processing.rs 166, media.rs 83-114: generate_thumbnail(&data, 600) up to
\* the write of data to ffmpeg's stdin
GenerateThumbnail ==
    /\ pc = "thumbnail"
    /\ \E w \in StdinWrites :
         /\ stdin_write' = StdinWrite("generate_thumbnail", w)
         /\ IF WriteReturns(w)
            THEN /\ WriteFailed("generate_thumbnail", "generate_thumbnail", w)
                 /\ pc' = "set_info"
            ELSE /\ pc' = "thumbnail_wait"
                 /\ UNCHANGED <<calls, children, timed_out>>
    /\ UNCHANGED <<botVars, respVars, probe_input, nameVars, downloadVars, mime_type, data, resolved,
                   remuxVars, mediaVars, result>>

\* processing.rs 166-170, media.rs 116-125; thumb is held in thumbnail_data
\* from here on (the code moves it there at 177).
GenerateThumbnailWait ==
    /\ pc = "thumbnail_wait"
    /\ \E r \in ThumbnailWaits :
         /\ calls' = Append(calls, Call("generate_thumbnail", r.ok))
         /\ DropChild("generate_thumbnail", TimedOut(r))
         /\ IF r.ok
            THEN /\ thumbnail_data' = Some(r.data)
                 /\ pc' = "blurhash"
            ELSE /\ pc' = "set_info"
                 /\ UNCHANGED thumbnail_data
    /\ stdin_write' = None
    /\ UNCHANGED <<botVars, respVars, probe_input, nameVars, downloadVars, mime_type, data, resolved,
                   remuxVars, info, blurhash, attachment_config, result>>

\* processing.rs 172-177
GenerateBlurhash ==
    /\ pc = "blurhash"
    /\ \E r \in BlurhashResults(Unwrap(thumbnail_data)) :
         /\ calls' = Append(calls, Call("generate_blurhash", r.ok))
         /\ blurhash' = IF r.ok THEN Some(r.hash) ELSE None
    /\ pc' = "probe_thumb"
    /\ UNCHANGED <<botVars, respVars, toolVars, nameVars, downloadVars, mime_type, data,
                   resolved, remuxVars, info, thumbnail_data, attachment_config,
                   result>>

\* processing.rs 189-195
Thumbnail(thumb, w, h) ==
    [data |-> thumb, content_type |-> Unwrap(ParseMime("image/jpeg")),
     width |-> w, height |-> h, size |-> Len(thumb)]

\* processing.rs 182, media.rs 28-52: probe_media(&thumb) up to the write
ProbeThumbnail ==
    /\ pc = "probe_thumb"
    /\ \E w \in StdinWrites :
         /\ stdin_write' = StdinWrite("probe_thumbnail", w)
         /\ IF WriteReturns(w)
            THEN /\ WriteFailed("probe_media", "probe_thumbnail", w)
                 /\ pc' = "set_info"
            ELSE /\ pc' = "probe_thumb_wait"
                 /\ UNCHANGED <<calls, children, timed_out>>
    /\ UNCHANGED <<botVars, respVars, probe_input, nameVars, downloadVars, mime_type, data, resolved,
                   remuxVars, mediaVars, result>>

\* processing.rs 180-199, media.rs 54-78
ProbeThumbnailWait ==
    /\ pc = "probe_thumb_wait"
    /\ \E r \in ProbeOutputs :
         LET thumb_width == IF r.ok THEN Some(r.info.width) ELSE None
             thumb_height == IF r.ok THEN Some(r.info.height) ELSE None
         IN /\ calls' = Append(calls, Call("probe_media", r.ok))
            /\ DropChild("probe_thumbnail", TimedOut(r))
            /\ attachment_config' =
                 IF IsSome(thumb_width) /\ IsSome(thumb_height)
                 THEN [attachment_config EXCEPT !.thumbnail =
                         Some(Thumbnail(Unwrap(thumbnail_data), Unwrap(thumb_width),
                                        Unwrap(thumb_height)))]
                 ELSE attachment_config
    /\ stdin_write' = None
    /\ pc' = "set_info"
    /\ UNCHANGED <<botVars, respVars, probe_input, nameVars, downloadVars, mime_type, data, resolved,
                   remuxVars, info, thumbnail_data, blurhash, result>>

\* Variant: video info carries the width alone.
AttachmentInfo_WidthOnly(mime, i, bh) ==
    CASE mime.type = "image" ->
           Some([kind |-> "Image", width |-> Some(i.width), height |-> Some(i.height),
                 blurhash |-> bh])
      [] mime.type = "video" ->
           Some([kind |-> "Video", width |-> Some(i.width), height |-> None,
                 blurhash |-> bh])
      [] mime.type = "audio" ->
           Some([kind |-> "Audio", width |-> None, height |-> None, blurhash |-> None])
      [] OTHER -> None

\* processing.rs 201-226
AttachmentInfo(mime, i, bh) ==
    CASE mime.type = "image" ->
           Some([kind |-> "Image", width |-> Some(i.width), height |-> Some(i.height),
                 blurhash |-> bh])
      [] mime.type = "video" ->
           Some([kind |-> "Video", width |-> Some(i.width), height |-> Some(i.height),
                 blurhash |-> bh])
      [] mime.type = "audio" ->
           Some([kind |-> "Audio", width |-> None, height |-> None, blurhash |-> None])
      [] OTHER -> None

\* processing.rs 201-226
SetInfo ==
    /\ pc = "set_info"
    /\ LET i == AttachmentInfo(Unwrap(mime_type), Unwrap(info), blurhash)
       IN attachment_config' =
            IF IsSome(i) THEN [attachment_config EXCEPT !.info = i]
            ELSE attachment_config
    /\ pc' = "naming"
    /\ UNCHANGED <<botVars, respVars, toolVars, nameVars, downloadVars, mime_type, data,
                   historyVars, remuxVars, info, thumbnail_data, blurhash, result>>

\* processing.rs 234-238
FallbackName ==
    IF IsSome(preferred_extension)
    THEN <<"media", ".", Unwrap(preferred_extension)>>
    ELSE <<"media">>

\* processing.rs 243-252: what one part of the header gives.  "skip": not a
\* filename= part, or an empty name; "panic": the slice 1..len-1 of a name
\* that is one quote character.
PartName(raw) ==
    LET part == Trim(raw)
        name == IF Len(part) > 0 THEN Trim(Tail(part)) ELSE <<>>
        quoted == Len(name) > 0 /\ name[1] = "\"" /\ name[Len(name)] = "\""
    IN IF Len(part) = 0 \/ Lower(part[1]) # "filename=" THEN [kind |-> "skip"]
       ELSE IF quoted /\ Len(name) = 1 THEN [kind |-> "panic"]
       ELSE LET unquoted == IF quoted THEN SubSeq(name, 2, Len(name) - 1) ELSE name
            IN IF Len(unquoted) = 0 THEN [kind |-> "skip"]
               ELSE [kind |-> "found", name |-> unquoted]

\* processing.rs 240-255: the first part that does not skip decides.
RECURSIVE DispositionName(_)
DispositionName(parts) ==
    IF Len(parts) = 0 THEN [kind |-> "skip"]
    ELSE IF PartName(Head(parts)).kind = "skip" THEN DispositionName(Tail(parts))
    ELSE PartName(Head(parts))

\* processing.rs 257-264
UrlName ==
    LET name == url_path[Len(url_path)]
    IN IF Len(name) > 0 THEN Some(name) ELSE None

\* processing.rs 240-264: found_name
FoundName(from_header) ==
    IF from_header.kind = "found" THEN Some(from_header.name) ELSE UrlName

\* Variant: the extension is compared case-sensitively.
IsValidExt_CaseSensitive(name, valid_exts) ==
    LET ext == PathExtension(name)
        current_ext == IF IsSome(ext) THEN Unwrap(ext) ELSE <<>>
    IN \E i \in DOMAIN valid_exts : <<valid_exts[i]>> = current_ext

\* processing.rs 271-279
IsValidExt(name, valid_exts) ==
    LET ext == PathExtension(name)
        current_ext == IF IsSome(ext) THEN Unwrap(ext) ELSE <<>>
    IN \E i \in DOMAIN valid_exts : LowerAll(<<valid_exts[i]>>) = LowerAll(current_ext)

\* Variant: the name found is kept as it is.
EnforceExtension_Never(name) == name

\* processing.rs 270-284
EnforceExtension(name) ==
    IF IsSome(preferred_extension) /\ ~IsValidExt(name, Unwrap(mime_extensions))
    THEN name \o <<".", Unwrap(preferred_extension)>>
    ELSE name

\* processing.rs 233-289; a panic unwinds process_response, which drops tmp_file.
DetermineFilename ==
    /\ pc = "naming"
    /\ LET from_header == IF IsSome(content_disposition)
                          THEN DispositionName(Unwrap(content_disposition))
                          ELSE [kind |-> "skip"]
       IN IF from_header.kind = "panic"
          THEN /\ pc' = "panicked"
               /\ tmp_file' = Drop(tmp_file)
               /\ UNCHANGED filename
          ELSE /\ filename' = IF IsSome(FoundName(from_header))
                              THEN EnforceExtension(Unwrap(FoundName(from_header)))
                              ELSE FallbackName
               /\ pc' = "finish"
               /\ UNCHANGED tmp_file
    /\ UNCHANGED <<botVars, respVars, toolVars, downloaded, chunk_calls, mime_type, data,
                   historyVars, remuxVars, mediaVars, mime_extensions,
                   preferred_extension, result>>

\* processing.rs 295-300: the AttachmentData returned
AttachmentData ==
    [ok |-> TRUE, filename |-> filename, mime_type |-> Unwrap(mime_type),
     data |-> data, attachment_config |-> attachment_config]

\* processing.rs 291-301
Finish ==
    /\ pc = "finish"
    /\ result' = Some(AttachmentData)
    /\ tmp_file' = Drop(tmp_file)
    /\ pc' = "done"
    /\ UNCHANGED <<botVars, respVars, toolVars, nameVars, downloaded, chunk_calls, mime_type,
                   data, historyVars, remuxVars, mediaVars>>

Next ==
    \/ CheckContentLength
    \/ ReadHeaders
    \/ CreateTempFile
    \/ ReadChunk
    \/ ReadTempFile
    \/ SniffMime
    \/ RemuxCheck
    \/ RemuxCreateFiles
    \/ RemuxStreamCopy
    \/ RemuxReadCopy
    \/ RemuxReencode
    \/ RemuxReadReencode
    \/ RemuxReturn
    \/ PreferredExtension
    \/ ProbeMedia
    \/ ProbeMediaWait
    \/ GenerateThumbnail
    \/ GenerateThumbnailWait
    \/ GenerateBlurhash
    \/ ProbeThumbnail
    \/ ProbeThumbnailWait
    \/ SetInfo
    \/ DetermineFilename
    \/ Finish

Spec == Init /\ [][Next]_vars

SpecNaming == InitNaming /\ [][Next]_vars

\* ---- main.rs: the message event handler ----

Msgs == 1..MaxMsgs

\* A word of a message body, as tokens: a plain word, or scheme, host and path.
PlainWord == <<"hello">>
Url(scheme, host, path) == <<scheme, host, path>>

\* main.rs 244-245: starts_with("http://") || starts_with("https://")
StartsWithHttp(word) == word[1] \in {"http://", "https://"}

\* main.rs 245: Url::parse(word); a host of "[" does not parse
UrlParse(word) == IF Len(word) = 3 /\ word[2] # "[" THEN Some(word) ELSE None

\* A rewrite rule: the hosts its anchored regex ^https?://<host>/ matches and
\* the scheme and host its replacement string puts in their place.
Rule(hosts, scheme, host) == [hosts |-> hosts, replacement |-> <<scheme, host>>]

\* config.rs 18-29
DefaultUrlRewrites ==
    << Rule({"x.com", "www.x.com", "xcancel.com", "www.xcancel.com"},
            "https://", "vxtwitter.com"),
       Rule({"pixiv.net", "www.pixiv.net"}, "https://", "phixiv.net") >>

\* config.rs 216: regex.replace(url_str, replacement)
RegexReplace(rule, u) ==
    IF StartsWithHttp(u) /\ u[2] \in rule.hosts
    THEN Url(rule.replacement[1], rule.replacement[2], u[3])
    ELSE u

\* config.rs 215-222: the loop over the remaining rules
RECURSIVE RewriteWith(_, _)
RewriteWith(rules, u) ==
    IF Len(rules) = 0 THEN u
    ELSE LET new_url_str == RegexReplace(Head(rules), u)
         IN IF new_url_str # u /\ IsSome(UrlParse(new_url_str))
            THEN Unwrap(UrlParse(new_url_str))
            ELSE RewriteWith(Tail(rules), u)

\* Variant: no rule is applied.
RewriteUrl_Identity(u) == u

\* config.rs 213-224
RewriteUrl(u) == RewriteWith(url_rewrites, u)

\* main.rs 243-256: the first word that starts with http(s):// and parses
RECURSIVE FirstUrl(_)
FirstUrl(words) ==
    IF Len(words) = 0 THEN None
    ELSE IF StartsWithHttp(Head(words)) /\ IsSome(UrlParse(Head(words)))
    THEN Some(RewriteUrl(Unwrap(UrlParse(Head(words)))))
    ELSE FirstUrl(Tail(words))

\* main.rs 162-176, 237-242: the events a sync can deliver
Events ==
    { [sender_own |-> TRUE, msgtype |-> "text",
       words |-> <<Url("https://", "a.example", "/v")>>],
      [sender_own |-> FALSE, msgtype |-> "image", words |-> <<>>],
      [sender_own |-> FALSE, msgtype |-> "text", words |-> <<PlainWord>>],
      [sender_own |-> FALSE, msgtype |-> "text",
       words |-> <<PlainWord, Url("http://", "[", "/"), Url("https://", "x.com", "/u/1")>>] }

\* metadata.rs 15-23: Metadata
Metadatas ==
    [card : {None, Some("summary"), Some("tweet"), Some("summary_large_image")},
     title : {None, Some("Image File"), Some("Clip")},
     description : {None, Some("a<b")},
     image_url : {None, Some(Url("https://", "a.example", "/i.png"))},
     video_url : {None, Some(Url("https://", "a.example", "/v.mkv"))},
     audio_url : {None, Some(Url("https://", "a.example", "/a.mp3"))}]

\* Metadata::default()
DefaultMetadata ==
    [card |-> None, title |-> None, description |-> None, image_url |-> None,
     video_url |-> None, audio_url |-> None]

\* metadata.rs 26-28
MetadataIsEmpty(meta) == meta = DefaultMetadata

\* metadata.rs 30-41: fetch_from_url returns the page's Metadata, or an error
Pages == {Err("fetch")} \cup {[ok |-> TRUE, meta |-> meta] : meta \in Metadatas}

\* The pages of a sync with several messages: no page, a page without
\* metadata, and pages with a title, a video, both, or an ignored title alone.
FewPages ==
    {Err("fetch"), [ok |-> TRUE, meta |-> DefaultMetadata]}
        \cup {[ok |-> TRUE, meta |-> meta] :
                meta \in {[DefaultMetadata EXCEPT !.title = Some("Clip")],
                          [DefaultMetadata EXCEPT
                             !.video_url = Some(Url("https://", "a.example", "/v.mkv"))],
                          [DefaultMetadata EXCEPT
                             !.title = Some("Clip"), !.card = Some("summary_large_image"),
                             !.video_url = Some(Url("https://", "a.example", "/v.mkv"))],
                          [DefaultMetadata EXCEPT !.title = Some("Image File")]}}

\* config.rs 14-16: ^(Image|Video|Audio) File$
IgnoredTitle(t) == t \in {"Image File", "Video File", "Audio File"}

\* html_escape::encode_text followed by replace('\n', "<br/>")
EncodeText(t) == IF t = "a<b" THEN "a&lt;b" ELSE t

\* Variant: the later option wins.
OrElse_Second(a, b) == IF IsSome(b) THEN b ELSE a

\* Option::or
OrElse(a, b) == IF IsSome(a) THEN a ELSE b

\* processing.rs 27-82
ProcessMetadata(meta) ==
    LET media_url == IF meta.card \in {Some("summary"), Some("tweet")} THEN None
                     ELSE OrElse(OrElse(meta.video_url, meta.audio_url), meta.image_url)
        title == IF IsSome(meta.title) /\ IgnoredTitle(Unwrap(meta.title))
                 THEN None ELSE meta.title
        description == meta.description
        has_title == IsSome(title)
        has_desc == IsSome(description)
        body == CASE has_title /\ has_desc -> Unwrap(title) \o ": " \o Unwrap(description)
                  [] has_title /\ ~has_desc -> Unwrap(title)
                  [] ~has_title /\ has_desc -> Unwrap(description)
                  [] OTHER -> ""
        html_title == IF has_title
                      THEN "<strong>" \o EncodeText(Unwrap(title))
                             \o (IF has_desc THEN ":" ELSE "") \o "</strong>"
                      ELSE ""
        html_desc == IF has_desc THEN "<p>" \o EncodeText(Unwrap(description)) \o "</p>"
                     ELSE ""
        html_body == IF has_title \/ has_desc
                     THEN (IF IsSome(media_url) THEN "<br/>" ELSE "")
                            \o "<blockquote>" \o html_title \o html_desc \o "</blockquote>"
                     ELSE ""
    IN [body |-> body, html_body |-> html_body, media_url |-> media_url]

\* main.rs 311
HasText(p) == p.body # "" \/ p.html_body # ""

\* A call on the room: what was sent and whether the call succeeded.
Send(kind, ok) == [kind |-> kind, ok |-> ok]

\* The locals of every handler invocation before it starts.
InitHandlers ==
    /\ hpc = [m \in Msgs |-> "queued"]
    /\ url = [m \in Msgs |-> None]
    /\ params = [m \in Msgs |-> None]
    /\ typing = [m \in Msgs |-> FALSE]
    /\ sends = [m \in Msgs |-> <<>>]
    /\ upload_result = [m \in Msgs |-> None]
    /\ logged = [m \in Msgs |-> {}]

\* A sync that delivers MaxMsgs message events; no download is modelled in
\* detail, process_response is taken by its outcome.
InitBot ==
    /\ max_file_size = 1
    /\ content_length = None
    /\ content_type = None
    /\ url_path = << <<>> >>
    /\ content_disposition = None
    /\ InitLocals
    /\ url_rewrites = DefaultUrlRewrites
    /\ event \in [Msgs -> Events]
    /\ page \in [Msgs -> FewPages]
    /\ InitHandlers

\* config.rs 94-110, 164-171: rule lists a configuration can hold: the
\* defaults; two rules for one host; a rule whose result does not parse and a
\* rule that changes nothing, ahead of two that apply.
RewriteConfigs ==
    { DefaultUrlRewrites,
      << Rule({"x.com"}, "https://", "first.example"),
         Rule({"x.com", "www.x.com"}, "https://", "second.example") >>,
      << Rule({"x.com"}, "https://", "["),
         Rule({"x.com"}, "https://", "x.com"),
         Rule({"x.com"}, "https://", "vxtwitter.com"),
         Rule({"x.com"}, "https://", "second.example") >> }

\* main.rs 166-168: a message the bot sent itself
OwnEvent ==
    [sender_own |-> TRUE, msgtype |-> "text",
     words |-> <<Url("https://", "a.example", "/v")>>]

\* Text messages of other users that carry one URL.
UrlEvents ==
    { [sender_own |-> FALSE, msgtype |-> "text", words |-> <<PlainWord, u>>] :
        u \in { Url("https://", "x.com", "/what/ever"),
                Url("https://", "www.x.com", "/what/ever"),
                Url("http://", "xcancel.com", "/u/1"),
                Url("https://", "pixiv.net", "/a/2"),
                Url("https://", "google.com", "/") } }

\* A sync whose first event is a message with a URL, under any of the rule
\* lists and with any page behind the URL; further events are the bot's own.
InitMetadata ==
    /\ max_file_size = 1
    /\ content_length = None
    /\ content_type = None
    /\ url_path = << <<>> >>
    /\ content_disposition = None
    /\ InitLocals
    /\ url_rewrites \in RewriteConfigs
    /\ event \in {e \in [Msgs -> UrlEvents \cup {OwnEvent}] :
                     e[1] \in UrlEvents /\ \A m \in Msgs : m > 1 => e[m] = OwnEvent}
    /\ page \in {pg \in [Msgs -> Pages] : \A m \in Msgs : m > 1 => pg[m] = Err("fetch")}
    /\ InitHandlers

\* Variant: the bot's own messages are handled like any other.
StartHandler_AnySender(m) ==
    /\ hpc[m] = "queued"
    /\ \A n \in Msgs : n < m => hpc[n] = "returned"
    /\ hpc' = [hpc EXCEPT ![m] = "handle_message"]
    /\ UNCHANGED <<respVars, pipelineVars, botInputs, url, params, typing, sends,
                   upload_result, logged>>

\* main.rs 159-177, 181: the handler is registered with add_event_handler and
\* its future is awaited inside client.sync; main.rs spawns no task for it, so
\* the invocation for one event starts when those for the earlier events of
\* the sync have ended.  A panic in a handler unwinds client.sync itself.
StartHandler(m) ==
    /\ hpc[m] = "queued"
    /\ \A n \in Msgs : n < m => hpc[n] = "returned"
    /\ hpc' = [hpc EXCEPT ![m] = IF event[m].sender_own THEN "returned"
                                 ELSE "handle_message"]
    /\ UNCHANGED <<respVars, pipelineVars, botInputs, url, params, typing, sends,
                   upload_result, logged>>

\* main.rs 231-259
HandleMessage(m) ==
    /\ hpc[m] = "handle_message"
    /\ LET found == IF event[m].msgtype = "text" THEN FirstUrl(event[m].words) ELSE None
       IN /\ url' = [url EXCEPT ![m] = found]
          /\ hpc' = [hpc EXCEPT ![m] = IF IsSome(found) THEN "process_url" ELSE "returned"]
    /\ UNCHANGED <<respVars, pipelineVars, botInputs, params, typing, sends, upload_result,
                   logged>>

\* main.rs 261-282 down to the call of post_message; a fetch error is warned
\* about and process_url returns Ok.
ProcessUrl(m) ==
    /\ hpc[m] = "process_url"
    /\ IF ~page[m].ok
       THEN /\ logged' = [logged EXCEPT ![m] = @ \cup {"warn_fetch"}]
            /\ hpc' = [hpc EXCEPT ![m] = "returned"]
            /\ UNCHANGED params
       ELSE /\ IF MetadataIsEmpty(page[m].meta)
               THEN /\ hpc' = [hpc EXCEPT ![m] = "returned"]
                    /\ UNCHANGED params
               ELSE /\ params' = [params EXCEPT ![m] = Some(ProcessMetadata(page[m].meta))]
                    /\ hpc' = [hpc EXCEPT ![m] = "post_message"]
            /\ UNCHANGED logged
    /\ UNCHANGED <<respVars, pipelineVars, botInputs, url, typing, sends, upload_result>>

\* main.rs 253-255, 275: an Err out of post_message passes through
\* process_url's `?` and is warned about in handle_message, which returns Ok.
SendReturns(m, ok) ==
    /\ hpc' = [hpc EXCEPT ![m] = "returned"]
    /\ logged' = [logged EXCEPT ![m] = IF ok THEN @ ELSE @ \cup {"warn_process_url"}]

\* main.rs 304-322, 352-363: post_message up to the download, or its
\* text-only branch.
PostMessage(m) ==
    /\ hpc[m] = "post_message"
    /\ LET p == Unwrap(params[m])
       IN IF IsSome(p.media_url)
          THEN /\ hpc' = [hpc EXCEPT ![m] = "download"]
               /\ typing' = [typing EXCEPT ![m] = TRUE]
               /\ UNCHANGED <<sends, logged>>
          ELSE IF HasText(p)
          THEN \E ok \in BOOLEAN :
                 /\ sends' = [sends EXCEPT ![m] = Append(@, Send("text", ok))]
                 /\ SendReturns(m, ok)
                 /\ UNCHANGED typing
          ELSE /\ hpc' = [hpc EXCEPT ![m] = "returned"]
               /\ UNCHANGED <<typing, sends, logged>>
    /\ UNCHANGED <<respVars, pipelineVars, botInputs, url, params, upload_result>>

\* main.rs 366-393: how download_and_upload can end.  process_response can
\* return Ok, return Err, or panic (processing.rs 246-248).
UploadOutcomes == {"request_err", "process_err", "process_panic", "upload_err", "ok"}

\* main.rs 284-302, 323-351, 366-393: download_and_upload under with_typing,
\* and what post_message does with its result.
DownloadAndUpload(m) ==
    /\ hpc[m] = "download"
    /\ \E outcome \in UploadOutcomes :
         LET p == Unwrap(params[m])
         IN IF outcome = "process_panic"
            THEN /\ hpc' = [hpc EXCEPT ![m] = "panicked"]
                 /\ upload_result' = [upload_result EXCEPT ![m] = Some("panic")]
                 /\ UNCHANGED <<typing, sends, logged>>
            ELSE /\ typing' = [typing EXCEPT ![m] = FALSE]
                 /\ upload_result' =
                      [upload_result EXCEPT ![m] = Some(IF outcome = "ok" THEN "ok" ELSE "err")]
                 /\ sends' =
                      [sends EXCEPT ![m] =
                         IF outcome \in {"ok", "upload_err"}
                         THEN Append(@, Send("attachment", outcome = "ok"))
                         ELSE @]
                 /\ IF outcome = "ok"
                    THEN /\ hpc' = [hpc EXCEPT ![m] = "returned"]
                         /\ UNCHANGED logged
                    ELSE /\ logged' = [logged EXCEPT ![m] = @ \cup {"error_upload"}]
                         /\ hpc' = [hpc EXCEPT ![m] = IF HasText(p) THEN "fallback"
                                                      ELSE "returned"]
    /\ UNCHANGED <<respVars, pipelineVars, botInputs, url, params>>

\* main.rs 343-350: the text-only fallback reply
Fallback(m) ==
    /\ hpc[m] = "fallback"
    /\ \E ok \in BOOLEAN :
         /\ sends' = [sends EXCEPT ![m] = Append(@, Send("text", ok))]
         /\ SendReturns(m, ok)
    /\ UNCHANGED <<respVars, pipelineVars, botInputs, url, params, typing, upload_result>>

NextBot ==
    \/ \E m \in Msgs : StartHandler(m)
    \/ \E m \in Msgs : HandleMessage(m)
    \/ \E m \in Msgs : ProcessUrl(m)
    \/ \E m \in Msgs : PostMessage(m)
    \/ \E m \in Msgs : DownloadAndUpload(m)
    \/ \E m \in Msgs : Fallback(m)

SpecBot == InitBot /\ [][NextBot]_vars

SpecMetadata == InitMetadata /\ [][NextBot]_vars

\* ------------------------------------------------------------ properties
Called(op) == \E i \in DOMAIN calls : calls[i].op = op
Returned == pc = "done" /\ IsSome(result)
ReturnedOk == Returned /\ Unwrap(result).ok
ReturnedErr == Returned /\ ~Unwrap(result).ok
RemuxOk == IsSome(remux_result) /\ Unwrap(remux_result).ok
RemuxFailed == IsSome(remux_result) /\ ~Unwrap(remux_result).ok
RemuxPcs == {"remux_files", "remux_copy", "remux_read_copy", "remux_reencode",
             "remux_read_reencode", "remux_return"}
RemuxEntered ==
    pc \in RemuxPcs \/ IsSome(remux_result) \/ Called("ffmpeg_copy") \/ Called("ffmpeg_reencode")

\* C1: a declared Content-Length above max_file_size makes process_response
\* fail with the too-large error before any response.chunk() call and before
\* the temporary file is created.
C1_DeclaredTooLargeFailsFast ==
    (IsSome(content_length) /\ Unwrap(content_length) > max_file_size /\ pc # "start")
        => /\ ReturnedErr
           /\ Unwrap(result).err = "too_large_declared"
           /\ chunk_calls = 0
           /\ tmp_file.state = "none"

C1_Witness ==
    /\ pc = "done"
    /\ IsSome(content_length) /\ Unwrap(content_length) > max_file_size
    /\ result = Some(Err("too_large_declared"))

\* C2: while streaming, with or without a declared length, the download has
\* failed as soon as the running total exceeds max_file_size, and the bytes
\* written to the temporary file never exceed max_file_size plus one chunk.
C2_StreamedBudgetEnforced ==
    /\ Len(tmp_file.content) <= max_file_size + MaxChunk
    /\ downloaded > max_file_size
         => /\ ReturnedErr
            /\ Unwrap(result).err = "too_large_streamed"

C2_Witness ==
    /\ result = Some(Err("too_large_streamed"))
    /\ IsSome(content_length)
    /\ Unwrap(content_length) < downloaded
    /\ chunk_calls > 1

\* C3: on success the returned data is never longer than max_file_size, also
\* when it is the remuxer's output.
C3_DataWithinBudget ==
    ReturnedOk => Len(Unwrap(result).data) <= max_file_size

\* C4: process_response returns an error only for a failure of the download
\* (declared or streamed size, transport, temporary file); once the download
\* is read, no failure of remux, probe, thumbnail, thumbnail probe or blurhash
\* keeps it from returning Ok.
DownloadFailures == {"too_large_declared", "too_large_streamed", "transport", "tmpfile_io"}

C4_OnlyDownloadFails ==
    /\ ReturnedErr => /\ Unwrap(result).err \in DownloadFailures
                      /\ resolved = None
                      /\ calls = <<>>
                      /\ remux_result = None
    /\ (pc = "done" /\ IsSome(resolved)) => ReturnedOk

C4_Witness ==
    /\ ReturnedOk
    /\ RemuxFailed
    /\ calls[Len(calls)] = Call("probe_media", FALSE)

\* C5: when probe_media fails on the data, process_response still succeeds,
\* the result has no width, height, thumbnail or blurhash, and neither
\* generate_thumbnail nor generate_blurhash has been invoked.
MainProbeFailed ==
    \E i \in DOMAIN calls :
        /\ calls[i] = Call("probe_media", FALSE)
        /\ \A j \in 1..(i - 1) : calls[j].op # "probe_media"

C5_ProbeFailureShipsBare ==
    MainProbeFailed
        => /\ ~Called("generate_thumbnail")
           /\ ~Called("generate_blurhash")
           /\ pc = "done" => /\ ReturnedOk
                             /\ Unwrap(result).attachment_config.info = None
                             /\ Unwrap(result).attachment_config.thumbnail = None

C5_Witness == MainProbeFailed /\ ReturnedOk /\ Unwrap(result).mime_type.type = "image"

\* C6: in remux_to_mp4 the stream copy is the first ffmpeg run; the reencode
\* runs only after the stream copy completed with a failure status; when the
\* stream copy succeeds the reencode is not run and a successful return
\* carries the stream copy's output.
C6_StreamCopyFirst ==
    /\ \A i \in DOMAIN calls :
          calls[i].op = "ffmpeg_reencode"
              => \E j \in 1..(i - 1) : calls[j] = Call("ffmpeg_copy", FALSE)
    /\ (Called("ffmpeg_reencode") \/ remux_status.reencode # "not_run")
          => remux_status.copy = "exit_fail"
    /\ remux_status.copy = "exit_ok"
          => /\ ~Called("ffmpeg_reencode")
             /\ pc # "remux_reencode"
             /\ RemuxOk => Unwrap(remux_result).stage = "copy"

C6_Witness ==
    /\ Len(calls) >= 2
    /\ calls[1] = Call("ffmpeg_copy", FALSE)
    /\ calls[2] = Call("ffmpeg_reencode", TRUE)
    /\ RemuxOk /\ Unwrap(remux_result).stage = "reencode"

\* C7: whatever way the stream-copy stage fails (exit status, its 20s budget,
\* failure to run ffmpeg, failure to read its output), remux_to_mp4 attempts
\* the reencode before it returns.
CopyStageFailed ==
    \/ remux_status.copy \in {"timeout", "run_err", "exit_fail"}
    \/ remux_result = Some(Err("remux_read"))

C7_ReencodeAfterAnyCopyFailure ==
    (IsSome(remux_result) /\ CopyStageFailed) => Called("ffmpeg_reencode")

\* C8: remux_to_mp4 is entered only when the resolved MIME type is
\* video/x-matroska, and after a failed remux data and mime_type are what
\* they were before it, up to and including the returned AttachmentData.
C8_RemuxOnlyMatroskaAndPreserving ==
    /\ RemuxEntered => (IsSome(resolved) /\ Unwrap(resolved).mime_type = MATROSKA)
    /\ RemuxFailed
          => /\ data = Unwrap(resolved).data
             /\ mime_type = Some(Unwrap(resolved).mime_type)
             /\ pc = "done" => /\ ReturnedOk
                               /\ Unwrap(result).data = Unwrap(resolved).data
                               /\ Unwrap(result).mime_type = Unwrap(resolved).mime_type

C8_Witness ==
    /\ ReturnedOk
    /\ RemuxFailed
    /\ Unwrap(result).mime_type = MATROSKA
    /\ Len(Unwrap(result).data) > 0

\* C9: when the downloaded bytes are sniffed as Matroska and remux_to_mp4
\* succeeds, the result's mime_type is video/mp4 and its data is the
\* remuxer's output, not the downloaded bytes.
SniffedMatroska ==
    /\ IsSome(resolved)
    /\ InferGet(Unwrap(resolved).data) = Some("video/x-matroska")

C9_RemuxedResult ==
    (ReturnedOk /\ SniffedMatroska /\ RemuxOk)
        => /\ Unwrap(result).mime_type = MP4
           /\ Unwrap(result).data = Unwrap(remux_result).data
           /\ Unwrap(result).data # Unwrap(resolved).data

C9_Witness ==
    /\ ReturnedOk /\ SniffedMatroska /\ RemuxOk
    /\ Unwrap(remux_result).stage = "copy"
    /\ Len(Unwrap(result).data) > 0

\* C10: the MIME type resolved before any remux is the sniffed type when the
\* content has a signature with a parseable type, else the Content-Type
\* header when present and parseable, else the guess from the final URL
\* path's extension, else application/octet-stream.
ExpectedMime(buf) ==
    LET kind == InferGet(buf)
        sniffed == IF IsSome(kind) THEN ParseMime(Unwrap(kind)) ELSE None
        declared == IF IsSome(content_type) THEN ParseMime(Unwrap(content_type)) ELSE None
        ext == PathExtension(url_path[Len(url_path)])
        guessed == IF IsSome(ext) THEN ExtensionMime(Unwrap(ext)) ELSE None
    IN IF IsSome(sniffed) THEN Unwrap(sniffed)
       ELSE IF IsSome(declared) THEN Unwrap(declared)
       ELSE IF IsSome(guessed) THEN Unwrap(guessed)
       ELSE OCTET_STREAM

C10_MimePrecedence ==
    IsSome(resolved) => Unwrap(resolved).mime_type = ExpectedMime(Unwrap(resolved).data)

C10_Witness ==
    /\ IsSome(resolved)
    /\ InferGet(Unwrap(resolved).data) = None
    /\ content_type = Some("not a mime")
    /\ Unwrap(resolved).mime_type = MATROSKA

\* The filename= value the header carries: of the first filename= part whose
\* value is non-empty once a surrounding pair of quotes is removed.
RECURSIVE HeaderFilename(_)
HeaderFilename(parts) ==
    IF Len(parts) = 0 THEN None
    ELSE LET part == Trim(Head(parts))
             value == IF Len(part) > 0 THEN Trim(Tail(part)) ELSE <<>>
             paired == Len(value) >= 2 /\ value[1] = "\"" /\ value[Len(value)] = "\""
             name == IF paired THEN SubSeq(value, 2, Len(value) - 1) ELSE value
         IN IF Len(part) > 0 /\ Lower(part[1]) = "filename=" /\ Len(name) > 0
            THEN Some(name)
            ELSE HeaderFilename(Tail(parts))

\* The name the response itself gives: the header's, else the URL's last segment.
GivenName ==
    LET header == IF IsSome(content_disposition)
                  THEN HeaderFilename(Unwrap(content_disposition)) ELSE None
        segment == url_path[Len(url_path)]
    IN IF IsSome(header) THEN header
       ELSE IF Len(segment) > 0 THEN Some(segment) ELSE None

Canonical(mime) ==
    IF IsSome(MimeExtensions(mime)) THEN Some(Unwrap(MimeExtensions(mime))[1]) ELSE None

Accepted(name, mime) ==
    /\ IsSome(MimeExtensions(mime))
    /\ IsSome(PathExtension(name))
    /\ \E i \in DOMAIN Unwrap(MimeExtensions(mime)) :
          LowerAll(<<Unwrap(MimeExtensions(mime))[i]>>) = LowerAll(Unwrap(PathExtension(name)))

NamingRan == pc \in {"finish", "panicked"} \/ ReturnedOk

\* C11: the base filename is the non-empty filename= value of
\* Content-Disposition, else the non-empty last segment of the final URL, else
\* media.<canonical extension>, else media; once naming has run the call has
\* that name (with or without an appended extension).
C11_FilenamePrecedence ==
    NamingRan
        => /\ pc # "panicked"
           /\ LET ext == Canonical(Unwrap(mime_type))
              IN IF IsSome(GivenName)
                 THEN \/ filename = Unwrap(GivenName)
                      \/ IsSome(ext) /\ filename = Unwrap(GivenName) \o <<".", Unwrap(ext)>>
                 ELSE IF IsSome(ext)
                 THEN filename = <<"media", ".", Unwrap(ext)>>
                 ELSE filename = <<"media">>

C13_AppendExactlyWhenInvalid ==
    (ReturnedOk /\ IsSome(GivenName) /\ IsSome(Canonical(Unwrap(result).mime_type)))
        => Unwrap(result).filename =
             IF Accepted(Unwrap(GivenName), Unwrap(result).mime_type)
             THEN Unwrap(GivenName)
             ELSE Unwrap(GivenName) \o <<".", Unwrap(Canonical(Unwrap(result).mime_type))>>

C13_Witness ==
    /\ ReturnedOk
    /\ Unwrap(result).mime_type = MP4
    /\ GivenName = Some(<<"clip", ".", "mp4", ":orig">>)
    /\ Unwrap(result).filename = <<"clip", ".", "mp4", ":orig", ".", "mp4">>

\* C14: naming sees the final MIME type: the returned type is video/mp4 after
\* a successful remux and the resolved type otherwise, and the extensions
\* used to build or correct the filename are those of the returned type.
C14_NamingUsesFinalMime ==
    ReturnedOk
        => LET m == Unwrap(result).mime_type
               name == Unwrap(result).filename
           IN /\ m = IF RemuxOk THEN MP4 ELSE Unwrap(resolved).mime_type
              /\ mime_extensions = MimeExtensions(m)
              /\ preferred_extension = Canonical(m)
              /\ \/ IsSome(GivenName) /\ name = Unwrap(GivenName) /\ Accepted(name, m)
                 \/ IsSome(GivenName) /\ name = Unwrap(GivenName) /\ Canonical(m) = None
                 \/ IsSome(Canonical(m))
                      /\ SubSeq(name, Len(name) - 1, Len(name)) = <<".", Unwrap(Canonical(m))>>
                 \/ Canonical(m) = None /\ name = <<"media">>

C14_Witness ==
    /\ ReturnedOk
    /\ RemuxOk
    /\ Unwrap(resolved).mime_type = MATROSKA
    /\ Unwrap(result).filename = <<"clip", ".", "MKV", ".", "mp4">>

\* C15: whenever the result carries a thumbnail, the thumbnail's width and
\* height are present and strictly positive.
C15_ThumbnailDimsPositive ==
    (ReturnedOk /\ IsSome(Unwrap(result).attachment_config.thumbnail))
        => LET thumbnail == Unwrap(Unwrap(result).attachment_config.thumbnail)
           IN thumbnail.width > 0 /\ thumbnail.height > 0

\* C16: in the returned info, width and height are both present or both
\* absent, and when present they are the values probe_media returned for the
\* final data.
C16_InfoDimsTogether ==
    (ReturnedOk /\ IsSome(Unwrap(result).attachment_config.info))
        => LET i == Unwrap(Unwrap(result).attachment_config.info)
           IN /\ IsSome(i.width) <=> IsSome(i.height)
              /\ IsSome(i.width)
                   => /\ probe_input = Some(Unwrap(result).data)
                      /\ i.width = Some(Unwrap(info).width)
                      /\ i.height = Some(Unwrap(info).height)

C16_Witness ==
    /\ ReturnedOk
    /\ RemuxOk
    /\ Unwrap(result).data # Unwrap(resolved).data
    /\ IsSome(Unwrap(result).attachment_config.info)
    /\ Unwrap(Unwrap(result).attachment_config.info).kind = "Video"
    /\ Unwrap(Unwrap(result).attachment_config.info).width = Some(1)
    /\ Unwrap(Unwrap(result).attachment_config.info).height = Some(0)

\* C17: a tool call (probe_media, generate_thumbnail, either remux stage)
\* that hits its write or wait timeout leaves no subprocess behind: the
\* subprocess is terminated and reaped when the call fails.
C17_TimeoutReapsChild == \A op \in timed_out : op \notin children

\* C18: the temporary file of process_response is gone once process_response
\* has returned or unwound, and both temporary files of remux_to_mp4 are gone
\* once remux_to_mp4 has returned, on every exit path.
C18_TempFilesDeleted ==
    /\ pc \in {"done", "panicked"} => tmp_file.state # "open"
    /\ IsSome(remux_result) => input_file.state # "open" /\ output_file.state # "open"

C18_Witness ==
    /\ ReturnedOk
    /\ tmp_file.state = "deleted"
    /\ remux_result = Some(Err("reencode_exit_fail"))
    /\ input_file.state = "deleted"
    /\ output_file.state = "deleted"

\* C19: each handler invocation runs on its own task, so a slow download in
\* the handling of one room message does not delay another message: while
\* one invocation is in its download, the next invocation that has not
\* started yet can start.
C19_IndependentProgress ==
    \A m, n \in Msgs :
        (/\ hpc[n] = "download"
         /\ hpc[m] = "queued"
         /\ \A k \in Msgs : k < m => hpc[k] # "queued")
            => ENABLED StartHandler(m)

UploadFailed(m) == IsSome(upload_result[m]) /\ Unwrap(upload_result[m]) # "ok"
Sent(m, kind) == \E i \in DOMAIN sends[m] : sends[m][i].kind = kind

\* C20: when download_and_upload fails, no attachment is posted, the failure
\* is logged and does not leave the event handler, and once the handler has
\* returned the text-only reply was sent exactly when body or html_body is
\* non-empty.
C20_UploadFailureFallsBack ==
    \A m \in Msgs :
        UploadFailed(m)
            => /\ ~\E i \in DOMAIN sends[m] :
                     sends[m][i].kind = "attachment" /\ sends[m][i].ok
               /\ hpc[m] # "panicked"
               /\ "error_upload" \in logged[m]
               /\ hpc[m] = "returned" => (Sent(m, "text") <=> HasText(Unwrap(params[m])))

\* C21: process_metadata gives no media URL when the card is exactly
\* "summary" or "tweet"; for any other card or none it gives the video URL if
\* present, else the audio URL if present, else the image URL if present,
\* else none.
C21_MediaUrlSelection ==
    \A m \in Msgs :
        IsSome(params[m])
            => LET meta == page[m].meta
               IN Unwrap(params[m]).media_url =
                    IF meta.card = Some("summary") \/ meta.card = Some("tweet") THEN None
                    ELSE IF IsSome(meta.video_url) THEN meta.video_url
                    ELSE IF IsSome(meta.audio_url) THEN meta.audio_url
                    ELSE IF IsSome(meta.image_url) THEN meta.image_url
                    ELSE None

C21_Witness ==
    /\ IsSome(params[1])
    /\ page[1].meta.card = Some("summary_large_image")
    /\ page[1].meta.video_url = None
    /\ IsSome(page[1].meta.image_url)
    /\ Unwrap(params[1]).media_url = Some(Url("https://", "a.example", "/a.mp3"))

\* The first word of the message that starts with http:// or https:// and
\* parses, before any rewrite.
WordUrl(m) ==
    LET words == event[m].words
        hits == {i \in DOMAIN words : StartsWithHttp(words[i]) /\ IsSome(UrlParse(words[i]))}
    IN IF hits = {} THEN None
       ELSE Some(words[CHOOSE i \in hits : \A j \in hits : i <= j])

\* C23: rewrite_url returns the result of the first rule, in list order,
\* whose replacement changes the URL and parses as a URL, and the input URL
\* unchanged when no rule does.
C23_FirstApplicableRewrite ==
    \A m \in Msgs :
        IsSome(url[m])
            => LET u == Unwrap(WordUrl(m))
                   applies(i) == /\ RegexReplace(url_rewrites[i], u) # u
                                 /\ IsSome(UrlParse(RegexReplace(url_rewrites[i], u)))
                   hits == {i \in DOMAIN url_rewrites : applies(i)}
               IN url[m] = IF hits = {} THEN Some(u)
                           ELSE Some(RegexReplace(
                                  url_rewrites[CHOOSE i \in hits : \A j \in hits : i <= j], u))

C23_Witness ==
    /\ url_rewrites = DefaultUrlRewrites
    /\ WordUrl(1) = Some(Url("https://", "www.x.com", "/what/ever"))
    /\ url[1] = Some(Url("https://", "vxtwitter.com", "/what/ever"))

WaitPc(op) ==
    CASE op = "probe_media" -> "probe_wait"
      [] op = "generate_thumbnail" -> "thumbnail_wait"
      [] op = "probe_thumbnail" -> "probe_thumb_wait"

\* C22: in probe_media and generate_thumbnail a broken pipe on the write to
\* the tool's stdin is not an error, the call goes on to wait for the tool;
\* any other write error makes the call fail without waiting.
C22_BrokenPipeTolerated ==
    IsSome(stdin_write)
        => LET c == Unwrap(stdin_write)
           IN /\ c.outcome = "broken_pipe" => pc = WaitPc(c.op)
              /\ c.outcome = "write_err"
                   => /\ pc # WaitPc(c.op)
                      /\ ~calls[Len(calls)].ok
                      /\ c.op = "probe_media" => info = None
                      /\ c.op = "generate_thumbnail" => thumbnail_data = None

C22_Witness ==
    /\ stdin_write = StdinWrite("generate_thumbnail", "broken_pipe")
    /\ pc = "thumbnail_wait"
    /\ Unwrap(resolved).mime_type = MATROSKA

\* C24: in the result a blurhash is present only if a thumbnail is present,
\* and a thumbnail is present only if the probe of the main data succeeded.
C24_DependencyChain ==
    ReturnedOk
        => LET config == Unwrap(result).attachment_config
               has_blurhash == IsSome(config.info) /\ IsSome(Unwrap(config.info).blurhash)
           IN /\ has_blurhash => IsSome(config.thumbnail)
              /\ IsSome(config.thumbnail) => IsSome(info)

PostedReplies(m) == {i \in DOMAIN sends[m] : sends[m][i].ok}

====
